---------------------------- MODULE Spec2Model ----------------------------
(***************************************************************************)
(* croaring-rs: the lazy evaluation engine (bitmap/lazy.rs) and the        *)
(* iteration protocol (bitmap/iter.rs) over the Bitmap type.               *)
(*                                                                         *)
(* The Rust wrappers of lazy.rs and iter.rs are translated line by line.   *)
(* The functions they call through `ffi::` (CRoaring) and the eager Bitmap *)
(* methods live in other crates/files of the repository; they are modelled *)
(* from the contract the specification gives for them (sections 3, 4, 6).  *)
(***************************************************************************)
EXTENDS Integers, Sequences, FiniteSets, TLC

\* ------------------------------------------------------------------ bounds
\* Elements are drawn from 0..MaxElem (stand-ins for u32 values).
MaxElem == 3
\* The largest destination buffer length passed to next_many.
MaxDst == 3
\* u32::MAX of `u32::try_from(dst.len()).unwrap_or(u32::MAX)`, scaled down so
\* that buffers longer than the count type's maximum occur within MaxDst.
CountMax == 2
\* The longest input sequence handed to from_iter / extend.
MaxItems == 3
\* The places (variables of the caller) an owning iterator value can live in.
MaxSlots == 2
\* The heap addresses Box::pin can return.
MaxAddr == 3
\* The threads of the caller.
MaxThreads == 2
\* The borrowing iterators that can be live at once.
MaxBorrows == 2

Universe == 0..MaxElem

VARIABLES
    \* lazy engine
    bitmap,     \* the storage of the bitmap the lazy engine works on
    holder,     \* which type currently holds it: "Bitmap" | "LazyBitmap" | "LazyOwnedBitmap"
    eager,      \* the same operations applied eagerly to the same start (bitmap2 of the tests)
    origin,     \* how the latest LazyOwnedBitmap was made: "none" | "into_lazy" | "create"
    last_op,    \* the operation that produced the current state
    clone,      \* <<c>> right after `lazy.clone()` (a temporary, dropped by the next step), else <<>>
    ret,        \* the value returned by the last is_empty()
    text,       \* <<t>> right after `{:?}` of a LazyOwnedBitmap printed t (a temporary), else <<>>
    byref,      \* the twin of a LazyOwnedBitmap pipeline: [bitmap, owned_unions, subs], given
                \* the same operations with every by-value union made by reference
                \* (outside a pipeline, the bitmap in hand: where the next twin starts)
    \* iteration protocol
    src,        \* the bitmap iterated over
    flavor,     \* "iter" (BitmapIterator) | "into_iter" (BitmapIntoIterator)
    iter,       \* the iterator: [iterator |-> cursor, rev_iterator |-> cursor]
    fwd_out,    \* every value delivered by next() / written by next_many(), in order
    back_out,   \* every value delivered by next_back(), in order
    last,       \* the last iterator call (arguments, result), the iterator before it, the call before it
    used_next,  \* next() has been called on this iterator
    lens,       \* the dst lengths next_many was called with: {}, {n}, or all lengths once two differ
    done,       \* [fwd, back]: the cursor of that direction has reported exhaustion
    twin,       \* an iterator of the other flavor over the same bitmap, given the same calls
    \* building a bitmap from a sequence
    items,          \* the input sequence S
    from_iter_out,  \* <<b>> once Bitmap::from_iter(S) has returned b
    extend_out,     \* <<b>> once Bitmap::create() extended with S is b
    \* intersection of two lazy wrappers
    lazy_a,         \* the LazyOwnedBitmap a
    lazy_b,         \* the LazyOwnedBitmap b
    and_out,        \* <<r>> right after `&a & &b` returned r (a temporary), else <<>>
    \* storage of owning iterators
    owners,         \* slot -> <<>> or <<the BitmapIntoIterator value living there>>
    heap,           \* the addresses of the boxes that are allocated
    deref,          \* what the last next() of an owning iterator read through its cursor
    \* borrowing iterators and mutation of the bitmap B they borrow from
    target,         \* the element set of B
    alive,          \* B has not been consumed (moved into into_lazy / into_iter)
    borrows,        \* the live BitmapIterator values made by B.iter()
    mutating,       \* <<[thread, op]>> while a mutating operation runs on B, else <<>>
    last_mut        \* the last mutating operation that completed on B

lazyVars == <<bitmap, holder, eager, origin, last_op, clone, ret, byref, text>>
iterVars == <<src, flavor, iter, fwd_out, back_out, last, used_next, lens, done, twin>>
buildVars == <<items, from_iter_out, extend_out>>
andVars == <<lazy_a, lazy_b, and_out>>
ownVars == <<owners, heap, deref>>
borrowVars == <<target, alive, borrows, mutating, last_mut>>
extraVars == <<buildVars, andVars, ownVars, borrowVars>>
vars == <<lazyVars, iterVars, extraVars>>

\* The variables of the other parts of the API while one part is exercised.
IdleBuildVars ==
    /\ items = <<>>
    /\ from_iter_out = <<>>
    /\ extend_out = <<>>

IdleAndVars ==
    /\ lazy_a = <<>>
    /\ lazy_b = <<>>
    /\ and_out = <<>>

IdleOwnVars ==
    /\ owners = <<>>
    /\ heap = {}
    /\ deref = "none"

IdleBorrowVars ==
    /\ target = {}
    /\ alive = TRUE
    /\ borrows = {}
    /\ mutating = <<>>
    /\ last_mut = "none"

IdleExtraVars == IdleBuildVars /\ IdleAndVars /\ IdleOwnVars /\ IdleBorrowVars

\* ------------------------------------------------------------ the Bitmap type
\* Spec section 3: a set of u32 with a cached cardinality and a mode. `dirty` is
\* the Lazy-dirty mode; in Normal mode the cached cardinality is exact.
Bitmap_of(S) == [elems |-> S, card |-> Cardinality(S), dirty |-> FALSE]

Bitmap_create == Bitmap_of({})

Bitmaps == {Bitmap_of(S) : S \in SUBSET Universe}

\* Eager in-place operations (`bitmap2 |= b`, `^=`, `-=`, add): Normal in, Normal out.
Bitmap_bitor_assign(b, other) == Bitmap_of(b.elems \cup other.elems)

Bitmap_bitxor_assign(b, other) ==
    Bitmap_of((b.elems \ other.elems) \cup (other.elems \ b.elems))

Bitmap_sub_assign(b, other) == Bitmap_of(b.elems \ other.elems)

Bitmap_add(b, element) == Bitmap_of(b.elems \cup {element})

\* Debug for Bitmap: the text shows the cardinality and the values.
Bitmap_fmt(b) == [cardinality |-> b.card, values |-> b.elems]

\* assert_eq!(bitmap, bitmap2) on two Normal bitmaps.
Bitmap_eq(b1, b2) == b1.elems = b2.elems /\ b1.card = b2.card

\* ---------------------------------------------------- ffi: lazy primitives
\* Spec 4.1 / 6. A lazy primitive updates the element set, skips the
\* cardinality bookkeeping (the cache keeps its old value) and leaves the
\* target Lazy-dirty. force_bitsets is a representation hint only.
roaring_bitmap_lazy_or_inplace(x1, x2, force_bitsets) ==
    [elems |-> x1.elems \cup x2.elems, card |-> x1.card, dirty |-> TRUE]

roaring_bitmap_lazy_or_inplace_owned(x1, x2, force_bitsets) ==
    [elems |-> x1.elems \cup x2.elems, card |-> x1.card, dirty |-> TRUE]

roaring_bitmap_lazy_xor_inplace(x1, x2) ==
    [elems |-> (x1.elems \ x2.elems) \cup (x2.elems \ x1.elems),
     card |-> x1.card, dirty |-> TRUE]

roaring_bitmap_lazy_andnot_inplace(x1, x2) ==
    [elems |-> x1.elems \ x2.elems, card |-> x1.card, dirty |-> TRUE]

roaring_bitmap_lazy_add(x1, element) ==
    [elems |-> x1.elems \cup {element}, card |-> x1.card, dirty |-> TRUE]

roaring_bitmap_convert_to_lazy(x1) == [x1 EXCEPT !.dirty = TRUE]

roaring_bitmap_repair_after_lazy(x1) ==
    [elems |-> x1.elems, card |-> Cardinality(x1.elems), dirty |-> FALSE]

roaring_bitmap_is_empty(x1) == x1.elems = {}

\* ------------------------------------------------------- lazy.rs: LazyBitmap
\* Each operator takes the storage behind `self.bitmap` and returns it as the
\* call leaves it.
LazyBitmap_or_inplace(b, other, force_bitsets) ==
    roaring_bitmap_lazy_or_inplace(b, other, force_bitsets)

LazyBitmap_xor_inplace(b, other) ==
    roaring_bitmap_lazy_xor_inplace(b, other)

LazyBitmap_bitor_assign(b, other) == LazyBitmap_or_inplace(b, other, FALSE)

Mutant_LazyBitmap_bitxor_assign(b, other) == LazyBitmap_or_inplace(b, other, FALSE)

LazyBitmap_bitxor_assign(b, other) == LazyBitmap_xor_inplace(b, other)

\* bitmap.lazy_batch(|_| ()): the closure performs no lazy operation, so the
\* call is the repair of lines 114-116 on the bitmap as it was.
Bitmap_lazy_batch_noop(b) == roaring_bitmap_repair_after_lazy(b)

\* ------------------------------------------------- lazy.rs: LazyOwnedBitmap
Mutant_Bitmap_into_lazy(b) == [bitmap |-> b]

Bitmap_into_lazy(b) == [bitmap |-> roaring_bitmap_convert_to_lazy(b)]

LazyOwnedBitmap_create == [bitmap |-> Bitmap_create]

LazyOwnedBitmap_or_inplace(l, other, force_bitsets) ==
    [bitmap |-> roaring_bitmap_lazy_or_inplace(l.bitmap, other, force_bitsets)]

\* Slip: the target takes over the operand's storage without merging into it.
Mutant_LazyOwnedBitmap_or_inplace_owned(l, other, force_bitsets) ==
    [bitmap |-> [elems |-> other.elems, card |-> l.bitmap.card, dirty |-> TRUE]]

LazyOwnedBitmap_or_inplace_owned(l, other, force_bitsets) ==
    [bitmap |-> roaring_bitmap_lazy_or_inplace_owned(l.bitmap, other, force_bitsets)]

LazyOwnedBitmap_add(l, element) ==
    [bitmap |-> roaring_bitmap_lazy_add(l.bitmap, element)]

\* Slip: the bitmap is handed back without the repair.
Mutant_LazyOwnedBitmap_into_inner(l) == l.bitmap

LazyOwnedBitmap_into_inner(l) == roaring_bitmap_repair_after_lazy(l.bitmap)

\* Slip: emptiness read off the cached cardinality.
Mutant_LazyOwnedBitmap_is_empty(l) == l.bitmap.card = 0

LazyOwnedBitmap_is_empty(l) == roaring_bitmap_is_empty(l.bitmap)

LazyOwnedBitmap_bitor_assign(l, other) == LazyOwnedBitmap_or_inplace(l, other, FALSE)

LazyOwnedBitmap_bitor_assign_owned(l, other) ==
    LazyOwnedBitmap_or_inplace_owned(l, other, FALSE)

LazyOwnedBitmap_sub_assign(l, other) ==
    [bitmap |-> roaring_bitmap_lazy_andnot_inplace(l.bitmap, other)]

\* lazy |= &lazy_owned
LazyOwnedBitmap_bitor_assign_lazy(l, other) ==
    LazyOwnedBitmap_or_inplace(l, other.bitmap, FALSE)

\* lazy |= lazy_owned
LazyOwnedBitmap_bitor_assign_lazy_owned(l, other) ==
    LazyOwnedBitmap_or_inplace_owned(l, other.bitmap, FALSE)

\* #[derive(Clone)]: the clone wraps a copy of the bitmap as it is.
LazyOwnedBitmap_clone(l) == [bitmap |-> l.bitmap]

\* A wrapper as it is made: by create(), or by into_lazy() of any bitmap.
NewLazyOwnedBitmaps ==
    {LazyOwnedBitmap_create} \cup {Bitmap_into_lazy(x) : x \in Bitmaps}

\* Slip: the wrapper itself is repaired, not a clone of it.
Mutant_LazyOwnedBitmap_fmt(l) ==
    [self |-> [bitmap |-> LazyOwnedBitmap_into_inner(l)],
     text |-> Bitmap_fmt(LazyOwnedBitmap_into_inner(l))]

\* Debug::fmt(&self): `self.clone().into_inner()` is formatted; `self` is the
\* wrapper as the call leaves it.
LazyOwnedBitmap_fmt(l) ==
    LET b == LazyOwnedBitmap_into_inner(LazyOwnedBitmap_clone(l))
    IN  [self |-> l, text |-> Bitmap_fmt(b)]

\* The wrappers used as operands of a union: new ones, and ones that already
\* went through a lazy union.
LazyOperands ==
    NewLazyOwnedBitmaps
        \cup {LazyOwnedBitmap_bitor_assign(LazyOwnedBitmap_create, x) : x \in Bitmaps}

\* The twin pipeline starts with the wrapper as it was made.
NewTwin(storage) == [bitmap |-> storage, owned_unions |-> FALSE, subs |-> FALSE]

\* ------------------------------------------------------ lazy engine: actions
InitLazyVars ==
    /\ bitmap \in Bitmaps
    /\ eager = bitmap
    /\ holder = "Bitmap"
    /\ origin = "none"
    /\ last_op = "init"
    /\ clone = <<>>
    /\ ret = FALSE
    /\ byref = NewTwin(bitmap)
    /\ text = <<>>

\* lazy_batch, line 112: the handle borrows the bitmap and the closure starts.
LazyBatchEnter ==
    /\ holder = "Bitmap"
    /\ holder' = "LazyBitmap"
    /\ last_op' = "lazy_batch_enter"
    /\ clone' = <<>>
    /\ byref' = NewTwin(bitmap)
    /\ text' = <<>>
    /\ UNCHANGED <<bitmap, eager, origin, ret, iterVars, extraVars>>

\* Inside the closure: lazy.or_inplace(b, force_bitsets).
BatchOrInplace ==
    /\ holder = "LazyBitmap"
    /\ \E other \in Bitmaps, force_bitsets \in BOOLEAN :
          /\ bitmap' = LazyBitmap_or_inplace(bitmap, other, force_bitsets)
          /\ eager' = Bitmap_bitor_assign(eager, other)
    /\ last_op' = "or_inplace"
    /\ clone' = <<>>
    /\ byref' = NewTwin(bitmap')
    /\ text' = <<>>
    /\ UNCHANGED <<holder, origin, ret, iterVars, extraVars>>

\* Inside the closure: *lazy |= b.
BatchBitOrAssign ==
    /\ holder = "LazyBitmap"
    /\ \E other \in Bitmaps :
          /\ bitmap' = LazyBitmap_bitor_assign(bitmap, other)
          /\ eager' = Bitmap_bitor_assign(eager, other)
    /\ last_op' = "or_inplace"
    /\ clone' = <<>>
    /\ byref' = NewTwin(bitmap')
    /\ text' = <<>>
    /\ UNCHANGED <<holder, origin, ret, iterVars, extraVars>>

\* Inside the closure: lazy.xor_inplace(b).
BatchXorInplace ==
    /\ holder = "LazyBitmap"
    /\ \E other \in Bitmaps :
          /\ bitmap' = LazyBitmap_xor_inplace(bitmap, other)
          /\ eager' = Bitmap_bitxor_assign(eager, other)
    /\ last_op' = "xor_inplace"
    /\ clone' = <<>>
    /\ byref' = NewTwin(bitmap')
    /\ text' = <<>>
    /\ UNCHANGED <<holder, origin, ret, iterVars, extraVars>>

\* Inside the closure: *lazy ^= b.
BatchBitXorAssign ==
    /\ holder = "LazyBitmap"
    /\ \E other \in Bitmaps :
          /\ bitmap' = LazyBitmap_bitxor_assign(bitmap, other)
          /\ eager' = Bitmap_bitxor_assign(eager, other)
    /\ last_op' = "xor_inplace"
    /\ clone' = <<>>
    /\ byref' = NewTwin(bitmap')
    /\ text' = <<>>
    /\ UNCHANGED <<holder, origin, ret, iterVars, extraVars>>

\* lazy_batch, lines 113-117: the closure returned; repair, then return its result.
LazyBatchReturn ==
    /\ holder = "LazyBitmap"
    /\ bitmap' = roaring_bitmap_repair_after_lazy(bitmap)
    /\ holder' = "Bitmap"
    /\ last_op' = "lazy_batch_return"
    /\ clone' = <<>>
    /\ byref' = NewTwin(bitmap')
    /\ text' = <<>>
    /\ UNCHANGED <<eager, origin, ret, iterVars, extraVars>>

\* lazy_batch, line 113: the closure panics. The unwind leaves lazy_batch from
\* the call `f(&mut lazy_bitmap)`; lines 114-116 are not executed and neither
\* LazyBitmap nor lazy_batch has a Drop guard.
LazyBatchUnwind ==
    /\ holder = "LazyBitmap"
    /\ holder' = "Bitmap"
    /\ last_op' = "lazy_batch_unwind"
    /\ clone' = <<>>
    /\ byref' = NewTwin(bitmap)
    /\ text' = <<>>
    /\ UNCHANGED <<bitmap, eager, origin, ret, iterVars, extraVars>>

\* bitmap.into_lazy()
IntoLazy ==
    /\ holder = "Bitmap"
    /\ bitmap' = Bitmap_into_lazy(bitmap).bitmap
    /\ holder' = "LazyOwnedBitmap"
    /\ origin' = "into_lazy"
    /\ byref' = NewTwin(Bitmap_into_lazy(bitmap).bitmap)
    /\ last_op' = "into_lazy"
    /\ clone' = <<>>
    /\ text' = <<>>
    /\ UNCHANGED <<eager, ret, iterVars, extraVars>>

\* LazyOwnedBitmap::create(): a new pipeline; the eager twin restarts from
\* Bitmap::create().
LazyOwnedCreate ==
    /\ holder # "LazyBitmap"
    /\ bitmap' = LazyOwnedBitmap_create.bitmap
    /\ eager' = Bitmap_create
    /\ holder' = "LazyOwnedBitmap"
    /\ origin' = "create"
    /\ byref' = NewTwin(LazyOwnedBitmap_create.bitmap)
    /\ last_op' = "create"
    /\ clone' = <<>>
    /\ text' = <<>>
    /\ UNCHANGED <<ret, iterVars, extraVars>>

\* lazy.or_inplace(&b, force_bitsets)
OwnedOrInplace ==
    /\ holder = "LazyOwnedBitmap"
    /\ \E other \in Bitmaps, force_bitsets \in BOOLEAN :
          /\ bitmap' = LazyOwnedBitmap_or_inplace([bitmap |-> bitmap], other, force_bitsets).bitmap
          /\ eager' = Bitmap_bitor_assign(eager, other)
          /\ byref' = [byref EXCEPT !.bitmap =
                 LazyOwnedBitmap_or_inplace([bitmap |-> byref.bitmap], other, force_bitsets).bitmap]
    /\ last_op' = "or_inplace"
    /\ clone' = <<>>
    /\ text' = <<>>
    /\ UNCHANGED <<holder, origin, ret, iterVars, extraVars>>

\* lazy.or_inplace_owned(&mut b, force_bitsets)
OwnedOrInplaceOwned ==
    /\ holder = "LazyOwnedBitmap"
    /\ \E other \in Bitmaps, force_bitsets \in BOOLEAN :
          /\ bitmap' = LazyOwnedBitmap_or_inplace_owned([bitmap |-> bitmap], other, force_bitsets).bitmap
          /\ eager' = Bitmap_bitor_assign(eager, other)
          /\ byref' = [byref EXCEPT !.owned_unions = TRUE, !.bitmap =
                 LazyOwnedBitmap_or_inplace([bitmap |-> byref.bitmap], other, force_bitsets).bitmap]
    /\ last_op' = "or_inplace_owned"
    /\ clone' = <<>>
    /\ text' = <<>>
    /\ UNCHANGED <<holder, origin, ret, iterVars, extraVars>>

\* lazy |= &b
OwnedBitOrAssign ==
    /\ holder = "LazyOwnedBitmap"
    /\ \E other \in Bitmaps :
          /\ bitmap' = LazyOwnedBitmap_bitor_assign([bitmap |-> bitmap], other).bitmap
          /\ eager' = Bitmap_bitor_assign(eager, other)
          /\ byref' = [byref EXCEPT !.bitmap =
                 LazyOwnedBitmap_bitor_assign([bitmap |-> byref.bitmap], other).bitmap]
    /\ last_op' = "or_inplace"
    /\ clone' = <<>>
    /\ text' = <<>>
    /\ UNCHANGED <<holder, origin, ret, iterVars, extraVars>>

\* lazy |= b
OwnedBitOrAssignOwned ==
    /\ holder = "LazyOwnedBitmap"
    /\ \E other \in Bitmaps :
          /\ bitmap' = LazyOwnedBitmap_bitor_assign_owned([bitmap |-> bitmap], other).bitmap
          /\ eager' = Bitmap_bitor_assign(eager, other)
          /\ byref' = [byref EXCEPT !.owned_unions = TRUE, !.bitmap =
                 LazyOwnedBitmap_bitor_assign([bitmap |-> byref.bitmap], other).bitmap]
    /\ last_op' = "or_inplace_owned"
    /\ clone' = <<>>
    /\ text' = <<>>
    /\ UNCHANGED <<holder, origin, ret, iterVars, extraVars>>

\* lazy |= &lazy_owned
OwnedBitOrAssignLazy ==
    /\ holder = "LazyOwnedBitmap"
    /\ \E other \in LazyOperands :
          /\ bitmap' = LazyOwnedBitmap_bitor_assign_lazy([bitmap |-> bitmap], other).bitmap
          /\ eager' = Bitmap_bitor_assign(eager, other.bitmap)
          /\ byref' = [byref EXCEPT !.bitmap =
                 LazyOwnedBitmap_bitor_assign_lazy([bitmap |-> byref.bitmap], other).bitmap]
    /\ last_op' = "or_inplace"
    /\ clone' = <<>>
    /\ text' = <<>>
    /\ UNCHANGED <<holder, origin, ret, iterVars, extraVars>>

\* lazy |= lazy_owned
OwnedBitOrAssignLazyOwned ==
    /\ holder = "LazyOwnedBitmap"
    /\ \E other \in LazyOperands :
          /\ bitmap' = LazyOwnedBitmap_bitor_assign_lazy_owned([bitmap |-> bitmap], other).bitmap
          /\ eager' = Bitmap_bitor_assign(eager, other.bitmap)
          /\ byref' = [byref EXCEPT !.owned_unions = TRUE, !.bitmap =
                 LazyOwnedBitmap_bitor_assign_lazy([bitmap |-> byref.bitmap], other).bitmap]
    /\ last_op' = "or_inplace_owned"
    /\ clone' = <<>>
    /\ text' = <<>>
    /\ UNCHANGED <<holder, origin, ret, iterVars, extraVars>>

\* lazy.add(element)
OwnedAdd ==
    /\ holder = "LazyOwnedBitmap"
    /\ \E element \in Universe :
          /\ bitmap' = LazyOwnedBitmap_add([bitmap |-> bitmap], element).bitmap
          /\ eager' = Bitmap_add(eager, element)
          /\ byref' = [byref EXCEPT !.bitmap =
                 LazyOwnedBitmap_add([bitmap |-> byref.bitmap], element).bitmap]
    /\ last_op' = "add"
    /\ clone' = <<>>
    /\ text' = <<>>
    /\ UNCHANGED <<holder, origin, ret, iterVars, extraVars>>

\* lazy -= &b
OwnedSubAssign ==
    /\ holder = "LazyOwnedBitmap"
    /\ \E other \in Bitmaps :
          /\ bitmap' = LazyOwnedBitmap_sub_assign([bitmap |-> bitmap], other).bitmap
          /\ eager' = Bitmap_sub_assign(eager, other)
          /\ byref' = [byref EXCEPT !.subs = TRUE, !.bitmap =
                 LazyOwnedBitmap_sub_assign([bitmap |-> byref.bitmap], other).bitmap]
    /\ last_op' = "sub_assign"
    /\ clone' = <<>>
    /\ text' = <<>>
    /\ UNCHANGED <<holder, origin, ret, iterVars, extraVars>>

\* lazy.is_empty()
OwnedIsEmpty ==
    /\ holder = "LazyOwnedBitmap"
    /\ ret' = LazyOwnedBitmap_is_empty([bitmap |-> bitmap])
    /\ last_op' = "is_empty"
    /\ clone' = <<>>
    /\ text' = <<>>
    /\ UNCHANGED <<bitmap, holder, eager, origin, byref, iterVars, extraVars>>

\* lazy.clone()
OwnedClone ==
    /\ holder = "LazyOwnedBitmap"
    /\ clone' = <<LazyOwnedBitmap_clone([bitmap |-> bitmap])>>
    /\ last_op' = "clone"
    /\ text' = <<>>
    /\ UNCHANGED <<bitmap, holder, eager, origin, ret, byref, iterVars, extraVars>>

\* lazy.into_inner()
OwnedIntoInner ==
    /\ holder = "LazyOwnedBitmap"
    /\ bitmap' = LazyOwnedBitmap_into_inner([bitmap |-> bitmap])
    /\ holder' = "Bitmap"
    /\ last_op' = "into_inner"
    /\ byref' = [byref EXCEPT !.bitmap = LazyOwnedBitmap_into_inner([bitmap |-> byref.bitmap])]
    /\ clone' = <<>>
    /\ text' = <<>>
    /\ UNCHANGED <<eager, origin, ret, iterVars, extraVars>>

\* bitmap.lazy_batch(|_| ())
LazyBatchNoop ==
    /\ holder = "Bitmap"
    /\ bitmap' = Bitmap_lazy_batch_noop(bitmap)
    /\ last_op' = "lazy_batch_noop"
    /\ clone' = <<>>
    /\ byref' = NewTwin(bitmap')
    /\ text' = <<>>
    /\ UNCHANGED <<holder, eager, origin, ret, iterVars, extraVars>>

\* bitmap = bitmap.into_lazy().into_inner()
IntoLazyIntoInner ==
    /\ holder = "Bitmap"
    /\ bitmap' = LazyOwnedBitmap_into_inner(Bitmap_into_lazy(bitmap))
    /\ last_op' = "into_lazy_into_inner"
    /\ clone' = <<>>
    /\ byref' = NewTwin(bitmap')
    /\ text' = <<>>
    /\ UNCHANGED <<holder, eager, origin, ret, iterVars, extraVars>>

\* format!("{:?}", lazy)
OwnedFmt ==
    /\ holder = "LazyOwnedBitmap"
    /\ bitmap' = LazyOwnedBitmap_fmt([bitmap |-> bitmap]).self.bitmap
    /\ text' = <<LazyOwnedBitmap_fmt([bitmap |-> bitmap]).text>>
    /\ last_op' = "fmt"
    /\ clone' = <<>>
    /\ UNCHANGED <<holder, eager, origin, ret, byref, iterVars, extraVars>>

NextLazy ==
    \/ LazyBatchEnter
    \/ BatchOrInplace
    \/ BatchBitOrAssign
    \/ BatchXorInplace
    \/ BatchBitXorAssign
    \/ LazyBatchReturn
    \/ LazyBatchUnwind
    \/ IntoLazy
    \/ LazyOwnedCreate
    \/ OwnedOrInplace
    \/ OwnedOrInplaceOwned
    \/ OwnedBitOrAssign
    \/ OwnedBitOrAssignOwned
    \/ OwnedAdd
    \/ OwnedSubAssign
    \/ OwnedIsEmpty
    \/ OwnedClone
    \/ OwnedIntoInner
    \/ LazyBatchNoop
    \/ IntoLazyIntoInner
    \/ OwnedBitOrAssignLazy
    \/ OwnedBitOrAssignLazyOwned
    \/ OwnedFmt

\* The iterator is not used by the lazy engine.
IdleIterVars ==
    /\ src = Bitmap_create
    /\ flavor = "iter"
    /\ iter = <<>>
    /\ fwd_out = <<>>
    /\ back_out = <<>>
    /\ last = <<>>
    /\ used_next = FALSE
    /\ lens = {}
    /\ done = <<>>
    /\ twin = <<>>

InitLazy == InitLazyVars /\ IdleIterVars /\ IdleExtraVars

SpecLazy == InitLazy /\ [][NextLazy]_vars

\* ------------------------------------------------------ lazy engine: claims
Normal(b) == ~b.dirty /\ b.card = Cardinality(b.elems)

\* C1: whenever the bitmap is back in the caller's hands repaired (after
\* lazy_batch returned, or after into_inner), it equals the bitmap obtained by
\* applying the same union / xor / difference / add operations eagerly, in the
\* same order, to the same starting bitmap.
C1_LazyEqualsEager ==
    (holder = "Bitmap" /\ ~bitmap.dirty) => Bitmap_eq(bitmap, eager)

\* A pipeline started by LazyOwnedBitmap::create() (empty) was finished by
\* into_inner with two elements in it: lazy operations ran and were repaired.
C1_Witness ==
    /\ holder = "Bitmap"
    /\ last_op = "into_inner"
    /\ origin = "create"
    /\ bitmap.elems = {1, 3}

\* C2: once lazy_batch is no longer running (the bitmap is a plain Bitmap in
\* the caller's hands), the bitmap is not Lazy-dirty, whether the closure
\* returned or unwound.
C2_RepairedOnEveryExit == holder = "Bitmap" => ~bitmap.dirty

LazyPrimitiveOps == {"or_inplace", "or_inplace_owned", "add", "sub_assign"}

C13_RepairIdempotentOnNormal ==
    [][ (last_op' \in {"lazy_batch_noop", "into_lazy_into_inner"} /\ Normal(bitmap)) =>
            /\ bitmap'.elems = bitmap.elems
            /\ bitmap'.card = bitmap.card
            /\ Normal(bitmap')
            /\ holder' = "Bitmap"
      ]_vars

\* A Normal bitmap of two elements, equal to its eager twin, has just been
\* through into_lazy().into_inner().
C13_Witness ==
    /\ last_op = "into_lazy_into_inner"
    /\ holder = "Bitmap"
    /\ Normal(bitmap)
    /\ Bitmap_eq(bitmap, eager)
    /\ bitmap.elems = {0, 2}

\* C14: is_empty() on a LazyOwnedBitmap, whatever lazy unions, adds and
\* subtractions were made without a repair, returns true exactly when
\* into_inner() at that point would return a bitmap of cardinality 0.
C14_IsEmptyValidWhileDirty ==
    (holder = "LazyOwnedBitmap" /\ last_op = "is_empty") =>
        (ret <=> LazyOwnedBitmap_into_inner([bitmap |-> bitmap]).card = 0)

\* is_empty() returned true on a Lazy-dirty wrapper that a subtraction had
\* emptied while its cached cardinality still counted the elements it had.
C14_Witness ==
    /\ holder = "LazyOwnedBitmap"
    /\ last_op = "is_empty"
    /\ ret
    /\ bitmap.dirty
    /\ bitmap.card >= 2
    /\ eager.elems = {}

\* C20: a LazyOwnedBitmap pipeline whose unions take the operand by value
\* (`lazy |= bitmap`, `lazy |= lazy_owned`, or_inplace_owned) and the same
\* pipeline with every one of these unions made by reference have the same
\* element set after every step, subtractions included, and into_inner()
\* returns equal bitmaps for both.
C20_OwnedUnionEqualsByRef ==
    /\ (holder = "LazyOwnedBitmap" => bitmap.elems = byref.bitmap.elems)
    /\ (last_op = "into_inner" => Bitmap_eq(bitmap, byref.bitmap))

\* into_inner() returned a bitmap of two elements after a pipeline that made
\* unions by value and then subtractions.
C20_Witness ==
    /\ last_op = "into_inner"
    /\ byref.owned_unions
    /\ byref.subs
    /\ origin = "create"
    /\ bitmap.elems = {0, 3}

\* C22: Debug-formatting a LazyOwnedBitmap leaves it as it was (same element
\* set, same mode and cached cardinality, still a LazyOwnedBitmap), and the
\* text is that of the bitmap into_inner() would return at that point.
C22_FmtLeavesOriginal ==
    [][ last_op' = "fmt" =>
            /\ bitmap' = bitmap
            /\ holder' = "LazyOwnedBitmap"
            /\ (bitmap.dirty => bitmap'.dirty)
            /\ text' = <<Bitmap_fmt(LazyOwnedBitmap_into_inner([bitmap |-> bitmap]))>>
            /\ text'[1].cardinality = Cardinality(bitmap.elems)
      ]_vars

\* A Lazy-dirty wrapper whose cached cardinality is stale was formatted: the
\* text shows the two elements it holds, and it is still Lazy-dirty.
C22_Witness ==
    /\ last_op = "fmt"
    /\ holder = "LazyOwnedBitmap"
    /\ bitmap.dirty
    /\ bitmap.card # 2
    /\ text = <<[cardinality |-> 2, values |-> {1, 2}]>>
    /\ bitmap.elems = {1, 2}

\* =========================================================================
\* iteration protocol (bitmap/iter.rs)
\* =========================================================================
None == [some |-> FALSE, value |-> 0]

Some(v) == [some |-> TRUE, value |-> v]

SetMin(S) == CHOOSE x \in S : \A y \in S : x <= y

SetMax(S) == CHOOSE x \in S : \A y \in S : y <= x

\* ---------------------------------------------------- ffi: iterator primitives
\* Spec 4.2 / 6. A cursor (roaring_uint32_iterator_s) is HasValue(v) or
\* Exhausted; iter.rs reads its fields has_value and current_value. The cursor
\* points at its parent bitmap, which is passed here explicitly.
\* current_value of an exhausted cursor is never read by iter.rs.
Exhausted == [has_value |-> FALSE, current_value |-> 0]

HasValue(v) == [has_value |-> TRUE, current_value |-> v]

roaring_init_iterator(r) ==
    IF r.elems = {} THEN Exhausted ELSE HasValue(SetMin(r.elems))

roaring_init_iterator_last(r) ==
    IF r.elems = {} THEN Exhausted ELSE HasValue(SetMax(r.elems))

roaring_advance_uint32_iterator(r, it) ==
    LET above == {x \in r.elems : x > it.current_value}
    IN  IF ~it.has_value \/ above = {} THEN Exhausted ELSE HasValue(SetMin(above))

roaring_previous_uint32_iterator(r, it) ==
    LET below == {x \in r.elems : x < it.current_value}
    IN  IF ~it.has_value \/ below = {} THEN Exhausted ELSE HasValue(SetMax(below))

\* The elements of S in ascending order.
RECURSIVE Ascending(_)
Ascending(S) ==
    IF S = {} THEN <<>> ELSE <<SetMin(S)>> \o Ascending(S \ {SetMin(S)})

\* Bulk read: writes as many values as possible, at most `count`, ascending from
\* the cursor's current value, and leaves the cursor on the element following
\* the last one written (Exhausted if there is none).
roaring_read_uint32_iterator(r, it, count) ==
    LET rest == IF it.has_value
                THEN Ascending({x \in r.elems : x >= it.current_value})
                ELSE <<>>
        n == IF count < Len(rest) THEN count ELSE Len(rest)
    IN  [it  |-> IF n < Len(rest) THEN HasValue(rest[n + 1]) ELSE Exhausted,
         ret |-> n,
         buf |-> SubSeq(rest, 1, n)]

\* ------------------------------------------------------ iter.rs: BitmapIterator
\* A BitmapIterator is [iterator, rev_iterator]; the borrowed bitmap
\* (PhantomData<&'a Bitmap>) is the parameter `b`.
BitmapIterator_new(b) ==
    [iterator |-> roaring_init_iterator(b),
     rev_iterator |-> roaring_init_iterator_last(b)]

\* Slip: the forward test reads the backward cursor.
Mutant_BitmapIterator_has_value(self) == self.rev_iterator.has_value

BitmapIterator_has_value(self) == self.iterator.has_value

BitmapIterator_current_value(self) ==
    IF BitmapIterator_has_value(self)
    THEN Some(self.iterator.current_value)
    ELSE None

BitmapIterator_advance(self, b) ==
    [self EXCEPT !.iterator = roaring_advance_uint32_iterator(b, self.iterator)]

BitmapIterator_has_value_back(self) == self.rev_iterator.has_value

BitmapIterator_current_value_back(self) ==
    IF BitmapIterator_has_value_back(self)
    THEN Some(self.rev_iterator.current_value)
    ELSE None

\* Slip: the forward primitive applied to the backward cursor.
Mutant_BitmapIterator_advance_back(self, b) ==
    [self EXCEPT !.rev_iterator = roaring_advance_uint32_iterator(b, self.rev_iterator)]

BitmapIterator_advance_back(self, b) ==
    [self EXCEPT !.rev_iterator = roaring_previous_uint32_iterator(b, self.rev_iterator)]

\* Slip: the requested count is returned instead of the count read.
Mutant_BitmapIterator_next_many(self, b, dst_len) ==
    LET count == IF dst_len <= CountMax THEN dst_len ELSE CountMax
        r == roaring_read_uint32_iterator(b, self.iterator, count)
    IN  [self |-> [self EXCEPT !.iterator = r.it],
         ret |-> count,
         written |-> r.buf,
         assert_ok |-> r.ret <= count]

\* Slip: `dst.len() as u32`, which wraps instead of clamping.
Mutant_BitmapIterator_next_many_wrap(self, b, dst_len) ==
    LET count == dst_len % (CountMax + 1)
        r == roaring_read_uint32_iterator(b, self.iterator, count)
    IN  [self |-> [self EXCEPT !.iterator = r.it],
         ret |-> r.ret,
         written |-> r.buf,
         assert_ok |-> r.ret <= count]

\* dst is given by its length; `written` is the prefix of dst the call filled.
BitmapIterator_next_many(self, b, dst_len) ==
    LET count == IF dst_len <= CountMax THEN dst_len ELSE CountMax
        r == roaring_read_uint32_iterator(b, self.iterator, count)
    IN  [self |-> [self EXCEPT !.iterator = r.it],
         ret |-> r.ret,
         written |-> r.buf,
         assert_ok |-> r.ret <= count]

\* Slip: the cursor is advanced twice.
Mutant_BitmapIterator_next(self, b) ==
    LET value == BitmapIterator_current_value(self)
    IN  IF value.some
        THEN [self |-> BitmapIterator_advance(BitmapIterator_advance(self, b), b),
              ret |-> value]
        ELSE [self |-> self, ret |-> None]

BitmapIterator_next(self, b) ==
    LET value == BitmapIterator_current_value(self)
    IN  IF value.some
        THEN [self |-> BitmapIterator_advance(self, b), ret |-> value]
        ELSE [self |-> self, ret |-> None]

\* Slip: next_back reads the value of the forward cursor.
Mutant_BitmapIterator_next_back(self, b) ==
    LET value == BitmapIterator_current_value(self)
    IN  IF value.some
        THEN [self |-> BitmapIterator_advance_back(self, b), ret |-> value]
        ELSE [self |-> self, ret |-> None]

BitmapIterator_next_back(self, b) ==
    LET value == BitmapIterator_current_value_back(self)
    IN  IF value.some
        THEN [self |-> BitmapIterator_advance_back(self, b), ret |-> value]
        ELSE [self |-> self, ret |-> None]

Bitmap_iter(b) == BitmapIterator_new(b)

\* -------------------------------------------------- iter.rs: BitmapIntoIterator
\* A BitmapIntoIterator is [iterator, rev_iterator, _bitmap]: it owns the
\* bitmap its cursors point at.
\* Slip: both cursors initialised from the last element.
Mutant_BitmapIntoIterator_new(b) ==
    [iterator |-> roaring_init_iterator_last(b),
     rev_iterator |-> roaring_init_iterator_last(b),
     _bitmap |-> b]

BitmapIntoIterator_new(b) ==
    [iterator |-> roaring_init_iterator(b),
     rev_iterator |-> roaring_init_iterator_last(b),
     _bitmap |-> b]

\* Slip: a count that does not fit is replaced by 0 instead of the maximum.
Mutant_BitmapIntoIterator_next_many(self, dst_len) ==
    LET count == IF dst_len <= CountMax THEN dst_len ELSE 0
        r == roaring_read_uint32_iterator(self._bitmap, self.iterator, count)
    IN  [self |-> [self EXCEPT !.iterator = r.it],
         ret |-> r.ret,
         written |-> r.buf,
         assert_ok |-> r.ret <= count]

BitmapIntoIterator_next_many(self, dst_len) ==
    LET count == IF dst_len <= CountMax THEN dst_len ELSE CountMax
        r == roaring_read_uint32_iterator(self._bitmap, self.iterator, count)
    IN  [self |-> [self EXCEPT !.iterator = r.it],
         ret |-> r.ret,
         written |-> r.buf,
         assert_ok |-> r.ret <= count]

\* Slip: the value is read after the cursor has moved.
Mutant_BitmapIntoIterator_next(self) ==
    IF self.iterator.has_value
    THEN LET it2 == roaring_advance_uint32_iterator(self._bitmap, self.iterator)
         IN  [self |-> [self EXCEPT !.iterator = it2],
              ret |-> Some(it2.current_value)]
    ELSE [self |-> self, ret |-> None]

BitmapIntoIterator_next(self) ==
    IF self.iterator.has_value
    THEN LET value == self.iterator.current_value
         IN  [self |-> [self EXCEPT !.iterator =
                            roaring_advance_uint32_iterator(self._bitmap, self.iterator)],
              ret |-> Some(value)]
    ELSE [self |-> self, ret |-> None]

\* Slip: next_back works on the forward cursor.
Mutant_BitmapIntoIterator_next_back(self) ==
    IF self.iterator.has_value
    THEN LET value == self.iterator.current_value
         IN  [self |-> [self EXCEPT !.iterator =
                            roaring_previous_uint32_iterator(self._bitmap, self.iterator)],
              ret |-> Some(value)]
    ELSE [self |-> self, ret |-> None]

BitmapIntoIterator_next_back(self) ==
    IF self.rev_iterator.has_value
    THEN LET value == self.rev_iterator.current_value
         IN  [self |-> [self EXCEPT !.rev_iterator =
                            roaring_previous_uint32_iterator(self._bitmap, self.rev_iterator)],
              ret |-> Some(value)]
    ELSE [self |-> self, ret |-> None]

Bitmap_into_iter(b) == BitmapIntoIterator_new(b)

\* ---------------------------------------------------- iteration: actions
\* The calls of the iterator in hand, whichever flavor it is.
CallNext(f, it, b) ==
    IF f = "iter" THEN BitmapIterator_next(it, b) ELSE BitmapIntoIterator_next(it)

CallNextBack(f, it, b) ==
    IF f = "iter" THEN BitmapIterator_next_back(it, b) ELSE BitmapIntoIterator_next_back(it)

CallNextMany(f, it, b, dst_len) ==
    IF f = "iter" THEN BitmapIterator_next_many(it, b, dst_len)
    ELSE BitmapIntoIterator_next_many(it, dst_len)

NewIterator(f, b) == IF f = "iter" THEN Bitmap_iter(b) ELSE Bitmap_into_iter(b)

NoCall == [op |-> "none", len |-> 0, n |-> 0, ret |-> None, ok |-> TRUE]

OtherFlavor(f) == IF f = "iter" THEN "into_iter" ELSE "iter"

\* A bitmap, and an iterator of either flavor freshly made over it.
InitIterVars ==
    /\ src \in Bitmaps
    /\ flavor \in {"iter", "into_iter"}
    /\ iter = NewIterator(flavor, src)
    /\ fwd_out = <<>>
    /\ back_out = <<>>
    /\ last = [call |-> NoCall, before |-> iter, prev |-> "none"]
    /\ used_next = FALSE
    /\ lens = {}
    /\ done = [fwd |-> FALSE, back |-> FALSE]
    /\ twin = [iter |-> NewIterator(OtherFlavor(flavor), src), call |-> NoCall,
               fwd_out |-> <<>>, back_out |-> <<>>]

\* iter.next()
IterNext ==
    LET r == CallNext(flavor, iter, src)
    IN  /\ iter' = r.self
        /\ fwd_out' = IF r.ret.some THEN Append(fwd_out, r.ret.value) ELSE fwd_out
        /\ last' = [call |-> [op |-> "next", len |-> 0, n |-> 0, ret |-> r.ret, ok |-> TRUE],
                    before |-> iter, prev |-> last.call.op]
        /\ used_next' = TRUE
        /\ done' = [done EXCEPT !.fwd = @ \/ ~r.ret.some]
        /\ LET r2 == CallNext(OtherFlavor(flavor), twin.iter, src)
           IN  twin' = [iter |-> r2.self,
                        call |-> [op |-> "next", len |-> 0, n |-> 0, ret |-> r2.ret, ok |-> TRUE],
                        fwd_out |-> IF r2.ret.some THEN Append(twin.fwd_out, r2.ret.value)
                                    ELSE twin.fwd_out,
                        back_out |-> twin.back_out]
        /\ UNCHANGED <<src, flavor, back_out, lens, lazyVars, extraVars>>

\* iter.next_back()
IterNextBack ==
    LET r == CallNextBack(flavor, iter, src)
    IN  /\ iter' = r.self
        /\ back_out' = IF r.ret.some THEN Append(back_out, r.ret.value) ELSE back_out
        /\ last' = [call |-> [op |-> "next_back", len |-> 0, n |-> 0, ret |-> r.ret, ok |-> TRUE],
                    before |-> iter, prev |-> last.call.op]
        /\ done' = [done EXCEPT !.back = @ \/ ~r.ret.some]
        /\ LET r2 == CallNextBack(OtherFlavor(flavor), twin.iter, src)
           IN  twin' = [iter |-> r2.self,
                        call |-> [op |-> "next_back", len |-> 0, n |-> 0, ret |-> r2.ret, ok |-> TRUE],
                        fwd_out |-> twin.fwd_out,
                        back_out |-> IF r2.ret.some THEN Append(twin.back_out, r2.ret.value)
                                     ELSE twin.back_out]
        /\ UNCHANGED <<src, flavor, fwd_out, used_next, lens, lazyVars, extraVars>>

\* iter.next_many(&mut dst) with dst.len() = dst_len
IterNextMany ==
    \E dst_len \in 0..MaxDst :
        LET r == CallNextMany(flavor, iter, src, dst_len)
        IN  /\ iter' = r.self
            /\ fwd_out' = fwd_out \o r.written
            /\ last' = [call |-> [op |-> "next_many", len |-> dst_len, n |-> r.ret,
                                  ret |-> None, ok |-> r.assert_ok],
                        before |-> iter, prev |-> last.call.op]
            /\ lens' = IF lens = {} \/ lens = {dst_len} THEN {dst_len} ELSE 0..MaxDst
            /\ done' = [done EXCEPT !.fwd = @ \/ (r.ret < dst_len /\ r.ret < CountMax)]
            /\ LET r2 == CallNextMany(OtherFlavor(flavor), twin.iter, src, dst_len)
               IN  twin' = [iter |-> r2.self,
                            call |-> [op |-> "next_many", len |-> dst_len, n |-> r2.ret,
                                      ret |-> None, ok |-> r2.assert_ok],
                            fwd_out |-> twin.fwd_out \o r2.written,
                            back_out |-> twin.back_out]
            /\ UNCHANGED <<src, flavor, back_out, used_next, lazyVars, extraVars>>

NextIter ==
    \/ IterNext
    \/ IterNextBack
    \/ IterNextMany

\* The lazy engine is not used by the iterator.
IdleLazyVars ==
    /\ bitmap = Bitmap_create
    /\ eager = Bitmap_create
    /\ holder = "Bitmap"
    /\ origin = "none"
    /\ last_op = "init"
    /\ clone = <<>>
    /\ ret = FALSE
    /\ byref = <<>>
    /\ text = <<>>

InitIter == InitIterVars /\ IdleLazyVars /\ IdleExtraVars

SpecIter == InitIter /\ [][NextIter]_vars

\* ---------------------------------------------------- iteration: claims
Reverse(s) == [i \in 1..Len(s) |-> s[Len(s) + 1 - i]]

IsPrefix(s, t) == Len(s) <= Len(t) /\ s = SubSeq(t, 1, Len(s))

StrictlyAscending(s) == \A i, j \in 1..Len(s) : i < j => s[i] < s[j]

Range(s) == {s[i] : i \in 1..Len(s)}

Min2(a, b) == IF a <= b THEN a ELSE b

\* The number of elements a forward cursor has yet to deliver.
Remaining(b, c) ==
    IF c.has_value THEN Cardinality({x \in b.elems : x >= c.current_value}) ELSE 0

\* The values next() returns, called until None on iterator `it` (at most
\* `fuel` calls).
RECURSIVE CollectNext(_, _, _, _)
CollectNext(f, it, b, fuel) ==
    LET r == CallNext(f, it, b)
    IN  IF fuel = 0 \/ ~r.ret.some THEN <<>>
        ELSE <<r.ret.value>> \o CollectNext(f, r.self, b, fuel - 1)

\* C4 as stated: a next_many call on a cursor that has a value returns fewer
\* than dst.len() if and only if the cursor is Exhausted when the call returns.
C4_ShortIffExhausted ==
    (last.call.op = "next_many" /\ last.before.iterator.has_value) =>
        ((last.call.n < last.call.len) <=> ~iter.iterator.has_value)

\* C4 amended: next_many returns min(dst.len(), u32::MAX, remaining); the
\* cursor is Exhausted on return exactly when every remaining element was
\* written; for dst.len() <= u32::MAX the count is short if and only if fewer
\* than dst.len() elements remained, and a short count leaves the cursor
\* Exhausted (a full count leaves it Exhausted too when exactly dst.len()
\* elements remained).
C4_ShortIffFewerRemain ==
    last.call.op = "next_many" =>
        LET rem == Remaining(src, last.before.iterator)
            len == last.call.len
            n == last.call.n
        IN  /\ n = Min2(Min2(len, CountMax), rem)
            /\ (~iter.iterator.has_value <=> rem <= Min2(len, CountMax))
            /\ (len <= CountMax => ((n < len) <=> (rem < len)))
            /\ (len <= CountMax /\ n < len => ~iter.iterator.has_value)

\* A call that returned a short, non-zero count.
C4_Witness ==
    /\ last.call.op = "next_many"
    /\ last.call.len <= CountMax
    /\ 0 < last.call.n
    /\ last.call.n < last.call.len
    /\ ~iter.iterator.has_value

\* C5 as stated: for a buffer of any length, 0 included, next_many returns 0
\* if and only if the cursor had no value when the call began.
C5_ZeroIffExhausted ==
    last.call.op = "next_many" =>
        ((last.call.n = 0) <=> ~last.before.iterator.has_value)

\* C5 amended: for a non-empty buffer next_many returns 0 if and only if the
\* cursor had no value when the call began; for an empty buffer it returns 0
\* whatever the cursor, and leaves the cursor where it was.
C5_ZeroIffExhaustedNonEmptyDst ==
    last.call.op = "next_many" =>
        /\ (last.call.len >= 1 =>
               ((last.call.n = 0) <=> ~last.before.iterator.has_value))
        /\ (last.call.len = 0 =>
               last.call.n = 0 /\ iter.iterator = last.before.iterator)

\* A call with a non-empty buffer returned 0 after the cursor had delivered
\* its elements.
C5_Witness ==
    /\ last.call.op = "next_many"
    /\ last.call.len >= 1
    /\ last.call.n = 0
    /\ Len(fwd_out) >= 2

\* Only next_many, always with the same buffer length, has been called on the
\* forward cursor, and the last call returned 0.
ChunkedReadDone ==
    /\ ~used_next
    /\ Cardinality(lens) = 1
    /\ last.call.op = "next_many"
    /\ last.call.n = 0

AllByNext == CollectNext(flavor, NewIterator(flavor, src), src, MaxElem + 2)

\* C6 as stated: for any buffer size, the chunks written by next_many calls
\* repeated until one returns 0 concatenate to the sequence next() yields.
C6_ChunksEqualNext == ChunkedReadDone => fwd_out = AllByNext

\* C6 amended: the same, for any buffer size of at least 1.
C6_ChunksEqualNextNonEmptyDst ==
    (ChunkedReadDone /\ lens # {0}) => fwd_out = AllByNext

\* Three or more elements were read in chunks of 2.
C6_Witness ==
    /\ ChunkedReadDone
    /\ lens = {2}
    /\ Len(fwd_out) >= 3

\* C7: under any interleaving of next() and next_many(), what the forward
\* cursor has delivered is a prefix of the ascending element sequence (nothing
\* skipped, nothing repeated), and a next() that follows a next_many returns
\* the element right after the last one written.
C7_InterleavingIsPrefix ==
    /\ IsPrefix(fwd_out, Ascending(src.elems))
    /\ (last.call.op = "next" /\ last.call.ret.some /\ Len(fwd_out) >= 2 =>
           /\ last.call.ret.value = fwd_out[Len(fwd_out)]
           /\ fwd_out[Len(fwd_out)] =
                  SetMin({x \in src.elems : x > fwd_out[Len(fwd_out) - 1]}))

\* next() returned a value right after a next_many that had written some.
C7_Witness ==
    /\ last.call.op = "next"
    /\ last.prev = "next_many"
    /\ last.call.ret.some
    /\ lens # {0}
    /\ Len(fwd_out) >= 3

\* C8: when next() alone has been called and has returned None, it has
\* delivered every element of the bitmap exactly once in strictly ascending
\* order, in exactly cardinality() successful calls.
C8_NextYieldsAllAscending ==
    (lens = {} /\ last.call.op = "next" /\ ~last.call.ret.some) =>
        /\ StrictlyAscending(fwd_out)
        /\ Range(fwd_out) = src.elems
        /\ Len(fwd_out) = src.card

\* next() returned None after three values.
C8_Witness ==
    /\ lens = {}
    /\ last.call.op = "next"
    /\ ~last.call.ret.some
    /\ Len(fwd_out) = 3

\* C9: once next() and next_back() have both run to completion, the forward
\* sequence is the reverse of the backward sequence.
C9_ForwardIsReverseOfBackward ==
    (lens = {} /\ ~iter.iterator.has_value /\ ~iter.rev_iterator.has_value) =>
        fwd_out = Reverse(back_out)

\* Both directions ran to completion over three or more elements.
C9_Witness ==
    /\ lens = {}
    /\ ~iter.iterator.has_value
    /\ ~iter.rev_iterator.has_value
    /\ Len(fwd_out) >= 3
    /\ Len(back_out) >= 3

\* C10: a call on the forward cursor leaves the backward cursor and what it
\* delivered unchanged, and conversely; the k-th forward value is the k-th
\* smallest element and the k-th backward value the k-th largest, however many
\* calls the other cursor had; each cursor delivers all n elements.
C10_CursorsIndependent ==
    [][ /\ (last'.call.op \in {"next", "next_many"} =>
               iter'.rev_iterator = iter.rev_iterator /\ back_out' = back_out)
        /\ (last'.call.op = "next_back" =>
               iter'.iterator = iter.iterator /\ fwd_out' = fwd_out)
        /\ \A k \in 1..Len(fwd_out') : fwd_out'[k] = Ascending(src.elems)[k]
        /\ \A k \in 1..Len(back_out') :
               back_out'[k] = Reverse(Ascending(src.elems))[k]
        /\ (~iter'.iterator.has_value => Len(fwd_out') = Cardinality(src.elems))
        /\ (~iter'.rev_iterator.has_value => Len(back_out') = Cardinality(src.elems))
      ]_vars

\* The two cursors have passed each other: each delivered at least three of
\* four elements.
C10_Witness ==
    /\ Len(fwd_out) >= 3
    /\ Len(back_out) >= 3
    /\ Cardinality(src.elems) = 4
    /\ iter.iterator.has_value
    /\ iter.rev_iterator.has_value
    /\ iter.iterator.current_value > iter.rev_iterator.current_value

\* C11: once next() has returned None, or next_many has returned fewer values
\* than it was asked for, every later next() returns None and every later
\* next_many returns 0, and the forward cursor delivers nothing more; once
\* next_back() has returned None, every later next_back() returns None;
\* whatever calls are made in between on either cursor.
C11_ExhaustionIsTerminal ==
    [][ /\ (done.fwd =>
               /\ done'.fwd
               /\ fwd_out' = fwd_out
               /\ ~iter'.iterator.has_value
               /\ (last'.call.op = "next" => ~last'.call.ret.some)
               /\ (last'.call.op = "next_many" => last'.call.n = 0))
        /\ (done.back =>
               /\ done'.back
               /\ back_out' = back_out
               /\ ~iter'.rev_iterator.has_value
               /\ (last'.call.op = "next_back" => ~last'.call.ret.some))
      ]_vars

\* Both cursors reported exhaustion over three or more elements, the forward
\* one through a short next_many count, and a later next_many returned 0.
C11_Witness ==
    /\ done.fwd
    /\ done.back
    /\ ~used_next
    /\ Len(fwd_out) >= 3
    /\ Len(back_out) >= 3
    /\ last.call.op = "next_many"
    /\ last.call.len >= 1
    /\ last.call.n = 0
    /\ last.prev = "next_back"

\* C17: a borrowing iterator and an owning iterator made over the same
\* elements and given the same calls of next(), next_back() and next_many()
\* return the same values and counts at every call, write the same values, and
\* have their cursors in the same positions after it.
C17_FlavorsAgree ==
    /\ twin.call = last.call
    /\ twin.fwd_out = fwd_out
    /\ twin.back_out = back_out
    /\ twin.iter.iterator = iter.iterator
    /\ twin.iter.rev_iterator = iter.rev_iterator

\* Both flavors have been through next, next_many and next_back calls that
\* delivered values.
C17_Witness ==
    /\ used_next
    /\ lens # {} /\ lens # {0}
    /\ Len(twin.fwd_out) >= 3
    /\ Len(twin.back_out) >= 2
    /\ last.call.op = "next_back"
    /\ twin.call.ret.some

\* C19: a next_many call with a buffer longer than u32::MAX does not fail: it
\* writes min(u32::MAX, remaining) values, never more than the clamped count
\* (the debug assertion holds), loses no element (what the forward cursor has
\* delivered is still a prefix of the ascending sequence), and the calls that
\* follow deliver exactly the remaining elements in order.
C19_OversizedBufferIsClamped ==
    (last.call.op = "next_many" /\ last.call.len > CountMax) =>
        /\ last.call.ok
        /\ last.call.n <= CountMax
        /\ last.call.n = Min2(CountMax, Remaining(src, last.before.iterator))
        /\ IsPrefix(fwd_out, Ascending(src.elems))
        /\ fwd_out \o CollectNext(flavor, iter, src, MaxElem + 2) = Ascending(src.elems)

\* An oversized buffer was given while more than u32::MAX elements remained:
\* the call wrote u32::MAX of them and the cursor still has a value.
C19_Witness ==
    /\ last.call.op = "next_many"
    /\ last.call.len > CountMax
    /\ last.call.n = CountMax
    /\ iter.iterator.has_value
    /\ Cardinality(src.elems) = 4
    /\ Len(fwd_out) = CountMax

\* =========================================================================
\* building a bitmap from a sequence (bitmap/iter.rs, FromIterator / Extend)
\* =========================================================================
\* Vec::from_iter: the items of the iterator, in the order it yields them.
Vec_from_iter(it) == [i \in 1..Len(it) |-> it[i]]

\* Bitmap::of(&[u32]): the bitmap holding every value that occurs in the slice.
Bitmap_of_slice(elements) == Bitmap_of({elements[i] : i \in 1..Len(elements)})

Bitmap_from_iter(it) == Bitmap_of_slice(Vec_from_iter(it))

\* Slip: the loop adds the last item only.
Mutant_Bitmap_extend(self, it) ==
    IF it = <<>> THEN self ELSE Bitmap_add(self, it[Len(it)])

\* for item in iter { self.add(item) }
RECURSIVE Bitmap_extend(_, _)
Bitmap_extend(self, it) ==
    IF it = <<>> THEN self ELSE Bitmap_extend(Bitmap_add(self, Head(it)), Tail(it))

ItemSeqs == UNION {[1..n -> Universe] : n \in 0..MaxItems}

\* Any sequence of values: duplicates and any order included.
InitBuildVars ==
    /\ items \in ItemSeqs
    /\ from_iter_out = <<>>
    /\ extend_out = <<>>

\* Bitmap::from_iter(S)
FromIter ==
    /\ from_iter_out' = <<Bitmap_from_iter(items)>>
    /\ UNCHANGED <<items, extend_out, lazyVars, iterVars, andVars, ownVars, borrowVars>>

\* let mut b = Bitmap::create(); b.extend(S)
Extend ==
    /\ extend_out' = <<Bitmap_extend(Bitmap_create, items)>>
    /\ UNCHANGED <<items, from_iter_out, lazyVars, iterVars, andVars, ownVars, borrowVars>>

NextBuild ==
    \/ FromIter
    \/ Extend

InitBuild == InitBuildVars /\ IdleLazyVars /\ IdleIterVars /\ IdleAndVars /\ IdleOwnVars /\ IdleBorrowVars

SpecBuild == InitBuild /\ [][NextBuild]_vars

\* C12: Bitmap::from_iter(S) and Bitmap::create() extended with S have the same
\* element set, and it is the set of the distinct values occurring in S,
\* whatever the order and the repetitions in S.
C12_FromIterEqualsExtend ==
    /\ (from_iter_out # <<>> => from_iter_out[1].elems = Range(items))
    /\ (extend_out # <<>> => extend_out[1].elems = Range(items))
    /\ (from_iter_out # <<>> /\ extend_out # <<>> =>
           from_iter_out[1].elems = extend_out[1].elems)

\* Both were built from a sequence with a repeated value, not in ascending
\* order.
C12_Witness ==
    /\ items = <<3, 1, 3>>
    /\ from_iter_out # <<>>
    /\ extend_out # <<>>
    /\ extend_out[1].elems = {1, 3}

\* =========================================================================
\* intersection of two lazy wrappers (bitmap/lazy.rs, BitAnd)
\* =========================================================================
\* Spec 4.1: and(a, b) returns a new bitmap equal to the intersection; the
\* output is a fresh eager (Normal) bitmap and the operands are only read.
roaring_bitmap_lazy_and(x1, x2) ==
    [elems |-> x1.elems \cap x2.elems,
     card |-> Cardinality(x1.elems \cap x2.elems),
     dirty |-> FALSE]

\* Bitmap::take_heap: the Bitmap that takes over the heap-allocated result.
Bitmap_take_heap(p) == p

\* Slip: the left operand is passed twice.
Mutant_LazyOwnedBitmap_bitand(l, other) ==
    Bitmap_take_heap(roaring_bitmap_lazy_and(l.bitmap, l.bitmap))

\* &a & &b
LazyOwnedBitmap_bitand(l, other) ==
    Bitmap_take_heap(roaring_bitmap_lazy_and(l.bitmap, other.bitmap))

\* Spec 4.1: lazy_and only reads its operands; each is afterwards as it was.
roaring_bitmap_lazy_and_operand(x) == x

\* Slip: the left operand is repaired in place before it is intersected.
Mutant_LazyOwnedBitmap_bitand_operands(l, other) ==
    [self |-> [bitmap |-> roaring_bitmap_repair_after_lazy(l.bitmap)],
     other |-> [bitmap |-> roaring_bitmap_lazy_and_operand(other.bitmap)]]

\* The two operands as `&a & &b` leaves them: bitand makes one call, of
\* roaring_bitmap_lazy_and, on the storage of both.
LazyOwnedBitmap_bitand_operands(l, other) ==
    [self |-> [bitmap |-> roaring_bitmap_lazy_and_operand(l.bitmap)],
     other |-> [bitmap |-> roaring_bitmap_lazy_and_operand(other.bitmap)]]

InitAndVars ==
    /\ lazy_a \in NewLazyOwnedBitmaps
    /\ lazy_b \in NewLazyOwnedBitmaps
    /\ and_out = <<>>

\* a |= &x
AndLhsBitOrAssign ==
    /\ \E other \in Bitmaps : lazy_a' = LazyOwnedBitmap_bitor_assign(lazy_a, other)
    /\ and_out' = <<>>
    /\ UNCHANGED <<lazy_b, lazyVars, iterVars, buildVars, ownVars, borrowVars>>

\* a -= &x
AndLhsSubAssign ==
    /\ \E other \in Bitmaps : lazy_a' = LazyOwnedBitmap_sub_assign(lazy_a, other)
    /\ and_out' = <<>>
    /\ UNCHANGED <<lazy_b, lazyVars, iterVars, buildVars, ownVars, borrowVars>>

\* b |= &x
AndRhsBitOrAssign ==
    /\ \E other \in Bitmaps : lazy_b' = LazyOwnedBitmap_bitor_assign(lazy_b, other)
    /\ and_out' = <<>>
    /\ UNCHANGED <<lazy_a, lazyVars, iterVars, buildVars, ownVars, borrowVars>>

\* b -= &x
AndRhsSubAssign ==
    /\ \E other \in Bitmaps : lazy_b' = LazyOwnedBitmap_sub_assign(lazy_b, other)
    /\ and_out' = <<>>
    /\ UNCHANGED <<lazy_a, lazyVars, iterVars, buildVars, ownVars, borrowVars>>

\* let r = &a & &b
AndBitAnd ==
    /\ and_out' = <<LazyOwnedBitmap_bitand(lazy_a, lazy_b)>>
    /\ lazy_a' = LazyOwnedBitmap_bitand_operands(lazy_a, lazy_b).self
    /\ lazy_b' = LazyOwnedBitmap_bitand_operands(lazy_a, lazy_b).other
    /\ UNCHANGED <<lazyVars, iterVars, buildVars, ownVars, borrowVars>>

NextAnd ==
    \/ AndLhsBitOrAssign
    \/ AndLhsSubAssign
    \/ AndRhsBitOrAssign
    \/ AndRhsSubAssign
    \/ AndBitAnd

InitAnd == InitAndVars /\ IdleLazyVars /\ IdleIterVars /\ IdleBuildVars /\ IdleOwnVars /\ IdleBorrowVars

SpecAnd == InitAnd /\ [][NextAnd]_vars

\* C15: `&a & &b` on two LazyOwnedBitmap values, Lazy-dirty or not, returns a
\* Normal bitmap whose element set is the intersection of the element sets
\* into_inner() would give for a and for b.
C15_LazyAndIsIntersection ==
    and_out # <<>> =>
        /\ Normal(and_out[1])
        /\ and_out[1].elems = LazyOwnedBitmap_into_inner(lazy_a).elems
                                 \cap LazyOwnedBitmap_into_inner(lazy_b).elems

\* Two Lazy-dirty wrappers with stale cardinalities, neither contained in the
\* other, were intersected and the result has one element.
C15_Witness ==
    /\ and_out # <<>>
    /\ lazy_a.bitmap.dirty /\ lazy_a.bitmap.card # Cardinality(lazy_a.bitmap.elems)
    /\ lazy_b.bitmap.dirty /\ lazy_b.bitmap.card # Cardinality(lazy_b.bitmap.elems)
    /\ lazy_a.bitmap.elems = {0, 1}
    /\ lazy_b.bitmap.elems = {1, 2, 3}
    /\ and_out[1].elems = {1}

\* C21: `&a & &b` leaves both operands as they were: each keeps its element
\* set and its mode (a Lazy-dirty operand stays Lazy-dirty, with the cached
\* cardinality it had), and into_inner() of either gives what it would have
\* given had the intersection not been computed.
C21_BitAndLeavesOperands ==
    [][ and_out' # <<>> =>
            /\ lazy_a' = lazy_a
            /\ lazy_b' = lazy_b
            /\ (lazy_a.bitmap.dirty => lazy_a'.bitmap.dirty)
            /\ (lazy_b.bitmap.dirty => lazy_b'.bitmap.dirty)
            /\ LazyOwnedBitmap_into_inner(lazy_a') = LazyOwnedBitmap_into_inner(lazy_a)
            /\ LazyOwnedBitmap_into_inner(lazy_b') = LazyOwnedBitmap_into_inner(lazy_b)
      ]_vars

\* The intersection of two Lazy-dirty wrappers has just been computed; both
\* are still Lazy-dirty with the stale cardinality they had.
C21_Witness ==
    /\ and_out # <<>>
    /\ and_out[1].elems = {2}
    /\ lazy_a.bitmap = [elems |-> {0, 2}, card |-> 0, dirty |-> TRUE]
    /\ lazy_b.bitmap = [elems |-> {2, 3}, card |-> 3, dirty |-> TRUE]

\* =========================================================================
\* storage of owning iterators (bitmap/iter.rs, BitmapIntoIterator)
\* =========================================================================
Slots == 1..MaxSlots

Addrs == 1..MaxAddr

\* Box::pin / Box::clone: a new allocation gets any address that is not
\* allocated; an address that was released can be handed out again.
Box_alloc(h) == Addrs \ h

\* A cursor (roaring_uint32_iterator_s) keeps a raw pointer `parent` to the
\* bitmap it was initialised on.
\* BitmapIntoIterator::new: the bitmap is boxed at `addr`, both cursors are
\* initialised on the boxed bitmap, the box is stored in _bitmap.
BitmapIntoIterator_new_at(addr) ==
    [iterator |-> [parent |-> addr],
     rev_iterator |-> [parent |-> addr],
     _bitmap |-> addr]

\* #[derive(Clone)]: field by field. The cursors are plain structs and are
\* copied as they are, raw pointers included; Pin<Box<Bitmap>>::clone copies
\* the bitmap into a new box at `addr`.
BitmapIntoIterator_clone(self, addr) ==
    [iterator |-> self.iterator,
     rev_iterator |-> self.rev_iterator,
     _bitmap |-> addr]

\* Dropping the iterator drops its fields: the box is released.
BitmapIntoIterator_drop(self, h) == h \ {self._bitmap}

\* What next() reads through self.iterator.parent. Reading released storage is
\* undefined behaviour: the old values, arbitrary values or a fault.
BitmapIntoIterator_next_reads(self, h) ==
    IF self.iterator.parent = self._bitmap /\ self._bitmap \in h THEN {"own"}
    ELSE IF self.iterator.parent \in h THEN {"foreign"}
    ELSE {"released_old_values", "released_garbage", "released_fault"}

InitOwnVars ==
    /\ owners = [s \in Slots |-> <<>>]
    /\ heap = {}
    /\ deref = "none"

\* let it = bitmap.into_iter();
OwnIntoIter ==
    \E s \in Slots, addr \in Box_alloc(heap) :
        /\ owners[s] = <<>>
        /\ owners' = [owners EXCEPT ![s] = <<BitmapIntoIterator_new_at(addr)>>]
        /\ heap' = heap \cup {addr}
        /\ UNCHANGED <<deref, lazyVars, iterVars, buildVars, andVars, borrowVars>>

\* let c = it.clone();
OwnClone ==
    \E s, t \in Slots, addr \in Box_alloc(heap) :
        /\ owners[s] # <<>>
        /\ owners[t] = <<>>
        /\ owners' = [owners EXCEPT ![t] = <<BitmapIntoIterator_clone(owners[s][1], addr)>>]
        /\ heap' = heap \cup {addr}
        /\ UNCHANGED <<deref, lazyVars, iterVars, buildVars, andVars, borrowVars>>

\* let moved = it;  (the value changes place, the box does not)
OwnMove ==
    \E s, t \in Slots :
        /\ owners[s] # <<>>
        /\ owners[t] = <<>>
        /\ owners' = [owners EXCEPT ![t] = owners[s], ![s] = <<>>]
        /\ UNCHANGED <<heap, deref, lazyVars, iterVars, buildVars, andVars, borrowVars>>

\* drop(it);
OwnDrop ==
    \E s \in Slots :
        /\ owners[s] # <<>>
        /\ heap' = BitmapIntoIterator_drop(owners[s][1], heap)
        /\ owners' = [owners EXCEPT ![s] = <<>>]
        /\ UNCHANGED <<deref, lazyVars, iterVars, buildVars, andVars, borrowVars>>

\* it.next();
OwnNext ==
    \E s \in Slots :
        /\ owners[s] # <<>>
        /\ deref' \in BitmapIntoIterator_next_reads(owners[s][1], heap)
        /\ UNCHANGED <<owners, heap, lazyVars, iterVars, buildVars, andVars, borrowVars>>

NextOwn ==
    \/ OwnIntoIter
    \/ OwnClone
    \/ OwnMove
    \/ OwnDrop
    \/ OwnNext

InitOwn == InitOwnVars /\ IdleLazyVars /\ IdleIterVars /\ IdleBuildVars /\ IdleAndVars /\ IdleBorrowVars

SpecOwn == InitOwn /\ [][NextOwn]_vars

\* C16: after any moves, clones and drops, both cursors of every live owning
\* iterator refer to the box that iterator owns, that box is allocated, no
\* other live iterator owns it, and no next() has read storage that is
\* released or owned by another iterator.
C16_CursorsReferToOwnStorage ==
    /\ \A s \in Slots : owners[s] # <<>> =>
           /\ owners[s][1].iterator.parent = owners[s][1]._bitmap
           /\ owners[s][1].rev_iterator.parent = owners[s][1]._bitmap
           /\ owners[s][1]._bitmap \in heap
           /\ \A t \in Slots \ {s} :
                  owners[t] # <<>> => owners[t][1]._bitmap # owners[s][1]._bitmap
    /\ deref \in {"none", "own"}

\* =========================================================================
\* borrowing iterators and mutation (bitmap/iter.rs, BitmapIterator<'a>)
\* =========================================================================
Threads == 1..MaxThreads

BorrowIds == 1..MaxBorrows

\* The receivers of the operations on B, as their signatures give them.
Receiver_iter == "&self"

Receiver_add == "&mut self"

Receiver_extend == "&mut self"

Receiver_lazy_batch == "&mut self"

Receiver_into_lazy == "self"

Receiver_into_iter == "self"

MutatingOps == {"add", "extend", "lazy_batch", "into_lazy", "into_iter"}

Receiver(op) ==
    CASE op = "iter" -> Receiver_iter
      [] op = "add" -> Receiver_add
      [] op = "extend" -> Receiver_extend
      [] op = "lazy_batch" -> Receiver_lazy_batch
      [] op = "into_lazy" -> Receiver_into_lazy
      [] op = "into_iter" -> Receiver_into_iter

\* Slip: the struct keeps the two raw cursors only; no field carries the
\* lifetime of the borrow, which then ends when iter() returns.
Mutant_BitmapIterator_new_borrowed(id, t, elems) ==
    [id |-> id, thread |-> t, phantom |-> FALSE, seen |-> elems]

\* BitmapIterator::new(bitmap: &'a Bitmap): the value carries
\* PhantomData<&'a Bitmap>, the shared borrow of B, for as long as it lives.
\* `seen` is the element set the cursors were initialised on.
BitmapIterator_new_borrowed(id, t, elems) ==
    [id |-> id, thread |-> t, phantom |-> TRUE, seen |-> elems]

\* The borrow rules of the language: a call through `&self` needs B not to be
\* exclusively borrowed or moved; a call through `&mut self` or `self` needs
\* in addition that no value holding a shared borrow of B is live.
SharedBorrowsLive == \E it \in borrows : it.phantom

CallAllowed(op) ==
    /\ alive
    /\ mutating = <<>>
    /\ (Receiver(op) \in {"&mut self", "self"} => ~SharedBorrowsLive)

InitBorrowVars ==
    /\ target \in SUBSET Universe
    /\ alive = TRUE
    /\ borrows = {}
    /\ mutating = <<>>
    /\ last_mut = "none"

\* let it = B.iter();  on thread t
BorrowIter ==
    \E t \in Threads, id \in BorrowIds :
        /\ CallAllowed("iter")
        /\ \A it \in borrows : it.id # id
        /\ borrows' = borrows \cup {BitmapIterator_new_borrowed(id, t, target)}
        /\ UNCHANGED <<target, alive, mutating, last_mut,
                       lazyVars, iterVars, buildVars, andVars, ownVars>>

\* The iterator is handed to another thread (unsafe impl Send / Sync).
BorrowSend ==
    \E it \in borrows, t \in Threads :
        /\ t # it.thread
        /\ borrows' = (borrows \ {it}) \cup {[it EXCEPT !.thread = t]}
        /\ UNCHANGED <<target, alive, mutating, last_mut,
                       lazyVars, iterVars, buildVars, andVars, ownVars>>

\* drop(it);
BorrowDrop ==
    \E it \in borrows :
        /\ borrows' = borrows \ {it}
        /\ UNCHANGED <<target, alive, mutating, last_mut,
                       lazyVars, iterVars, buildVars, andVars, ownVars>>

\* A mutating operation on B starts on thread t.
MutateBegin ==
    \E t \in Threads, op \in MutatingOps :
        /\ CallAllowed(op)
        /\ mutating' = <<[thread |-> t, op |-> op]>>
        /\ UNCHANGED <<target, alive, borrows, last_mut,
                       lazyVars, iterVars, buildVars, andVars, ownVars>>

\* The mutating operation completes: add / extend / lazy_batch leave B with
\* more elements; into_lazy / into_iter have consumed B.
MutateEnd ==
    /\ mutating # <<>>
    /\ IF Receiver(mutating[1].op) = "self"
       THEN alive' = FALSE /\ target' = {}
       ELSE alive' = alive /\ \E S \in SUBSET Universe : target' = target \cup S
    /\ last_mut' = mutating[1].op
    /\ mutating' = <<>>
    /\ UNCHANGED <<borrows, lazyVars, iterVars, buildVars, andVars, ownVars>>

\* A new bitmap takes the place of a consumed B.
BorrowRebind ==
    /\ ~alive
    /\ alive' = TRUE
    /\ target' \in SUBSET Universe
    /\ UNCHANGED <<borrows, mutating, last_mut,
                   lazyVars, iterVars, buildVars, andVars, ownVars>>

NextBorrow ==
    \/ BorrowIter
    \/ BorrowSend
    \/ BorrowDrop
    \/ MutateBegin
    \/ MutateEnd
    \/ BorrowRebind

InitBorrow ==
    InitBorrowVars /\ IdleLazyVars /\ IdleIterVars /\ IdleBuildVars /\ IdleAndVars /\ IdleOwnVars

SpecBorrow == InitBorrow /\ [][NextBorrow]_vars

\* C18: while a BitmapIterator borrowed from B is live, on whatever thread, no
\* mutating operation (add, extend, lazy_batch, into_lazy, into_iter) runs on
\* B, B has not been consumed, and B's element set is the one the iterator was
\* made on.
C18_NoMutationWhileBorrowed ==
    \A it \in borrows :
        /\ mutating = <<>>
        /\ alive
        /\ it.seen = target

\* After an extend completed, two iterators over the extended bitmap are live
\* on two different threads.
C18_Witness ==
    /\ last_mut = "extend"
    /\ target # {}
    /\ \E it1, it2 \in borrows : it1.thread # it2.thread

=============================================================================
